---------------------------- MODULE Spec2Model ----------------------------
(***************************************************************************)
(* Model of cmd/internal/printer/printer.go: Config.Print walks g.Nodes    *)
(* and Config.node renders, for one type, a fields table and an edges      *)
(* table into a local strings.Builder and writes the tab-indented block    *)
(* to the configured writer.                                               *)
(*                                                                         *)
(* Text is kept as a sequence of chunks: the chunk "\n" is one newline,    *)
(* the chunk "\t" is one tab, every other chunk is a piece of text that    *)
(* holds no newline.  The content of a buffer is the concatenation of its  *)
(* chunks.                                                                 *)
(***************************************************************************)
EXTENDS Integers, Sequences, FiniteSets, TLC

(***************************************************************************)
(* Bounds of the model.                                                    *)
(***************************************************************************)
MaxNodes == 2
MaxDigits == 2

(***************************************************************************)
(* Small helpers on sequences, numbers and strings.                        *)
(***************************************************************************)
NL == "\n"
TAB == "\t"

Max(S) == CHOOSE m \in S : \A x \in S : x <= m

RECURSIVE Repeat(_, _)
Repeat(s, n) == IF n <= 0 THEN "" ELSE s \o Repeat(s, n - 1)

RECURSIVE Flatten(_)
Flatten(ss) == IF ss = << >> THEN << >> ELSE Head(ss) \o Flatten(Tail(ss))

RECURSIVE Concat(_)
Concat(ss) == IF ss = << >> THEN "" ELSE Head(ss) \o Concat(Tail(ss))

(***************************************************************************)
(* strconv and fmt.                                                        *)
(***************************************************************************)
Digits == <<"0", "1", "2", "3", "4", "5", "6", "7", "8", "9">>

\* strconv.Itoa, as fmt.Sprint prints an int.
RECURSIVE Itoa(_)
Itoa(n) ==
    IF n < 0 THEN "-" \o Itoa(-n)
    ELSE IF n < 10 THEN Digits[n + 1]
    ELSE Itoa(n \div 10) \o Digits[(n % 10) + 1]

\* strconv.FormatBool, as fmt.Sprint prints a bool.
FormatBool(v) == IF v THEN "true" ELSE "false"

\* The strings of 1..k decimal digits.
RECURSIVE DigitStrings(_)
DigitStrings(k) ==
    IF k = 0 THEN {}
    ELSE LET shorter == DigitStrings(k - 1)
             one == {Digits[d] : d \in 1..10}
         IN one \cup shorter \cup {s \o d : s \in shorter, d \in one}

\* The strings strconv.Atoi accepts: an optional sign and decimal digits.
Numerals == {sign \o ds : sign \in {"", "+", "-"}, ds \in DigitStrings(MaxDigits)}

\* err == nil of strconv.Atoi(s).
AtoiOk(s) == s \in Numerals


(***************************************************************************)
(* The schema graph read by the printer (package entc/gen): the fields,    *)
(* edges and types the graphs of the model are built from.                 *)
(***************************************************************************)
NilType == [nil |-> TRUE, name |-> ""]
TypeInfo(n) == [nil |-> FALSE, name |-> n]

IDField ==
    [Name |-> "id", Type |-> TypeInfo("int"), Unique |-> FALSE, Optional |-> FALSE,
     Nillable |-> FALSE, Default |-> FALSE, UpdateDefault |-> FALSE,
     Immutable |-> TRUE, StructTag |-> "json:\"id,omitempty\"", Validators |-> 0,
     comment |-> ""]

NameField ==
    [Name |-> "name", Type |-> TypeInfo("string"), Unique |-> TRUE, Optional |-> FALSE,
     Nillable |-> FALSE, Default |-> FALSE, UpdateDefault |-> FALSE,
     Immutable |-> FALSE, StructTag |-> "", Validators |-> 1,
     comment |-> ""]

AgeField ==
    [Name |-> "age", Type |-> NilType, Unique |-> FALSE, Optional |-> TRUE,
     Nillable |-> TRUE, Default |-> TRUE, UpdateDefault |-> TRUE,
     Immutable |-> FALSE, StructTag |-> "7", Validators |-> 12,
     comment |-> "in years"]

\* gen.Relation: the relation kinds of an edge.
O2O == 1
O2M == 2
M2O == 3
M2M == 4

PostsEdge ==
    [Name |-> "posts", Type |-> [Name |-> "Post"], Inverse |-> "",
     Rel |-> [Type |-> O2M], Unique |-> FALSE, Optional |-> TRUE, comment |-> ""]

OwnerEdge ==
    [Name |-> "owner", Type |-> [Name |-> "User"], Inverse |-> "pets",
     Rel |-> [Type |-> M2O], Unique |-> TRUE, Optional |-> FALSE,
     comment |-> "the owner"]

NoID == << >>
IDChoices == {NoID, <<IDField>>}
FieldChoices == {<< >>, <<AgeField, NameField>>}
EdgeChoices == {<< >>, <<PostsEdge>>, <<OwnerEdge, PostsEdge>>}

NodeNames == <<"User", "Post", "Group", "Pet">>

\* The types a graph may hold at position i of g.Nodes.  ID is << >> for a
\* nil t.ID and <<f>> for t.ID = &f.
TypesAt(i) ==
    {[Name |-> NodeNames[i], ID |-> id, Fields |-> fs, Edges |-> es] :
        id \in IDChoices, fs \in FieldChoices, es \in EdgeChoices}

RECURSIVE GraphsOfLen(_)
GraphsOfLen(n) ==
    IF n = 0 THEN {<< >>}
    ELSE {Append(g, t) : g \in GraphsOfLen(n - 1), t \in TypesAt(n)}

Graphs == UNION {GraphsOfLen(n) : n \in 0..MaxNodes}

\* Field.Comment() and Edge.Comment().
Comment(x) == x.comment

\* Edge.IsInverse().
IsInverse(e) == e.Inverse # ""

\* Relation.String().
RelString(r) ==
    CASE r = O2O -> "O2O"
      [] r = O2M -> "O2M"
      [] r = M2O -> "M2O"
      [] r = M2M -> "M2M"
      [] OTHER -> "Unknown"

\* TypeInfo.String().
TypeString(ti) == ti.name


(***************************************************************************)
(* The table writer (tablewriter.Table with the ASCII symbols, padding of  *)
(* one space, header auto-format off): a header, the appended rows and     *)
(* the per-column row alignment of its configuration.                      *)
(***************************************************************************)
AlignLeft == "left"
AlignRight == "right"
AlignCenter == "center"

\* tablewriter.NewWriter(&b).
NewWriter == [header |-> << >>, rows |-> << >>, perColumn |-> << >>]

\* table.Header(h).
Header(tbl, h) == [tbl EXCEPT !.header = h]

\* table.Append(row), when it succeeds.
AppendRow(tbl, row) == [tbl EXCEPT !.rows = Append(@, row)]

\* table.Options(WithRowAlignmentConfig(CellAlignment{PerColumn: al})).
WithRowAlignmentConfig(tbl, al) == [tbl EXCEPT !.perColumn = al]

\* A cell padded to width w.
PadCell(s, w, align) ==
    LET gap == w - Len(s)
    IN  CASE align = AlignRight -> Repeat(" ", gap) \o s
          [] align = AlignCenter ->
                Repeat(" ", gap \div 2) \o s \o Repeat(" ", gap - (gap \div 2))
          [] OTHER -> s \o Repeat(" ", gap)

\* The width of column c: the widest of the header and the cells below it.
ColumnWidth(tbl, c) ==
    Max({Len(tbl.header[c])} \cup {Len(tbl.rows[r][c]) : r \in 1..Len(tbl.rows)})

\* The alignment of the row cells of column c: the entry of PerColumn at the
\* column's position when there is one, left otherwise.
ColumnAlign(tbl, c) ==
    IF c <= Len(tbl.perColumn) THEN tbl.perColumn[c] ELSE AlignLeft

\* "+------+----+"
BorderLine(tbl) ==
    "+" \o Concat([c \in 1..Len(tbl.header) |->
                      Repeat("-", ColumnWidth(tbl, c) + 2) \o "+"])

\* "| Field | Type |"
HeaderLine(tbl) ==
    "|" \o Concat([c \in 1..Len(tbl.header) |->
                      " " \o PadCell(tbl.header[c], ColumnWidth(tbl, c), AlignCenter)
                          \o " |"])

\* "| name  | string |"
RowLine(tbl, r) ==
    "|" \o Concat([c \in 1..Len(tbl.header) |->
                      " " \o PadCell(tbl.rows[r][c], ColumnWidth(tbl, c),
                                     ColumnAlign(tbl, c))
                          \o " |"])

\* The lines table.Render() writes: the header between two borders, then the
\* rows and a closing border when there are rows.
TableLines(tbl) ==
    <<BorderLine(tbl), HeaderLine(tbl), BorderLine(tbl)>>
    \o [r \in 1..Len(tbl.rows) |-> RowLine(tbl, r)]
    \o (IF tbl.rows = << >> THEN << >> ELSE <<BorderLine(tbl)>>)

\* A rendering that leaves the last line without its newline.
RenderOpenEnded(tbl) ==
    LET lines == TableLines(tbl)
    IN  Flatten([i \in 1..Len(lines) |->
                    IF i < Len(lines) THEN <<lines[i], NL>> ELSE <<lines[i]>>])

\* table.Render(), when it succeeds: every line is written with its newline.
Render(tbl) ==
    LET lines == TableLines(tbl)
    IN  Flatten([i \in 1..Len(lines) |-> <<lines[i], NL>>])


(***************************************************************************)
(* Config.node: the rows of the two tables and the text of a block.        *)
(***************************************************************************)
FieldsHeader ==
    <<"Field", "Type", "Unique", "Optional", "Nillable", "Default",
      "UpdateDefault", "Immutable", "StructTag", "Validators", "Comment">>

EdgesHeader ==
    <<"Edge", "Type", "Inverse", "BackRef", "Relation", "Unique", "Optional",
      "Comment">>

\* The struct fields of gen.Field that reflection can find, with their kinds.
StructFields ==
    [Name |-> "string", Type |-> "ptr", Unique |-> "bool", Optional |-> "bool",
     Nillable |-> "bool", Default |-> "bool", UpdateDefault |-> "bool",
     Immutable |-> "bool", StructTag |-> "string", Validators |-> "int"]

\* v.FieldByNameFunc(match) for column i (counted from 0): the struct field
\* whose name is header[i], or "Name" for the first column.
FieldByNameFunc(f, i) ==
    LET n == CHOOSE n \in DOMAIN StructFields :
                 (n = "Name" /\ i = 0) \/ n = FieldsHeader[i + 1]
    IN  [kind |-> StructFields[n], v |-> f[n]]

\* fmt.Sprint(field.Interface()).
Sprint(x) ==
    CASE x.kind = "bool" -> FormatBool(x.v)
      [] x.kind = "int" -> Itoa(x.v)
      [] x.kind = "ptr" -> IF x.v.nil THEN "<nil>" ELSE TypeString(x.v)
      [] OTHER -> x.v

\* The row of a field: ten reflected cells and the comment.
FieldRow(f) ==
    [c \in 1..Len(FieldsHeader) |->
        IF c < Len(FieldsHeader) THEN Sprint(FieldByNameFunc(f, c - 1))
        ELSE Comment(f)]

\* The alignment decisions of a row, one per reflected cell.
RowAlignment(row) ==
    [c \in 1..(Len(row) - 1) |-> IF AtoiOk(row[c]) THEN AlignRight ELSE AlignLeft]

\* An alignment list rebuilt for every row.
OverwriteAlignment(alignment, decisions) == decisions

\* alignment = append(alignment, ...) over the cells of a row.
AppendAlignment(alignment, decisions) == alignment \o decisions

\* The identifier field after the declared fields.
RowSourceIDLast(t) == t.Fields \o t.ID

\* append(id, t.Fields...): the identifier field, when there is one, first.
RowSource(t) == t.ID \o t.Fields

\* An edge row with the Unique and Optional cells exchanged.
EdgeRowSwapped(e) ==
    <<e.Name, e.Type.Name, FormatBool(IsInverse(e)), e.Inverse,
      RelString(e.Rel.Type), FormatBool(e.Optional), FormatBool(e.Unique),
      Comment(e)>>

\* The row of an edge.
EdgeRow(e) ==
    <<e.Name, e.Type.Name, FormatBool(IsInverse(e)), e.Inverse,
      RelString(e.Rel.Type), FormatBool(e.Unique), FormatBool(e.Optional),
      Comment(e)>>

\* A buffer that outlives the call of node.
KeepBuilder(old) == old

\* var b strings.Builder: a new, empty buffer.
NewBuilder(old) == << >>

\* b.WriteString(t.Name + ":\n").
NameLine(t) == <<t.Name \o ":", NL>>

\* strings.ReplaceAll on chunks, for a pattern that is one chunk.
ReplaceAll(chunks, old, new) ==
    Flatten([i \in 1..Len(chunks) |->
                IF chunks[i] = old THEN new ELSE <<chunks[i]>>])

\* A block written without the indentation.
IndentNoTab(chunks) == chunks \o <<NL>>

\* strings.ReplaceAll(b.String(), "\n", "\n\t") + "\n".
Indent(chunks) == ReplaceAll(chunks, NL, <<NL, TAB>>) \o <<NL>>

\* An edges table rendered for every type.
RendersAlways(has) == TRUE

\* if hasEdges { table.Render() }.
RendersEdges(has) == has

\* The calls of the table that may fail while t is rendered.
TableCalls(t) ==
    Len(RowSource(t)) + 1 + Len(t.Edges) + (IF t.Edges = << >> THEN 0 ELSE 1)


(***************************************************************************)
(* The state.                                                              *)
(*   g          the graph handed to Print (g.Nodes)                        *)
(*   fault      the call of the table that fails: <<node, call>> counts    *)
(*              the Append and Render calls made for that node; <<0, 0>>   *)
(*              when none fails.  The table fails at the same call every   *)
(*              time the same graph is printed                             *)
(*   call       the number of Print calls started; call c writes to        *)
(*              sink[c]                                                    *)
(*   sink       per writer, the sequence of writes it received             *)
(*   pc         the position of the running Print                          *)
(*   idx        the index of the range loop over g.Nodes                   *)
(*   b, table, alignment, hasEdges   the locals of node                    *)
(*   fi, ei     the indexes of the two row loops of node                   *)
(*   ops        the table calls made so far for the current node           *)
(***************************************************************************)
VARIABLES g, fault, call, sink, pc, idx, b, table, alignment, hasEdges, fi, ei, ops

vars == <<g, fault, call, sink, pc, idx, b, table, alignment, hasEdges, fi, ei, ops>>

NoFault == <<0, 0>>

\* The calls that may fail for a graph: any Append or Render of any node.
Faults(gr) ==
    {NoFault} \cup UNION {{<<n, k>> : k \in 1..TableCalls(gr[n])} : n \in 1..Len(gr)}

Init ==
    /\ g \in Graphs
    /\ fault \in Faults(g)
    /\ call = 0
    /\ sink = <<<< >>, << >>>>
    /\ pc = "idle"
    /\ idx = 0
    /\ b = << >>
    /\ table = NewWriter
    /\ alignment = << >>
    /\ hasEdges = FALSE
    /\ fi = 0
    /\ ei = 0
    /\ ops = 0

\* err != nil of the next Append or Render of the current node.
Fails == fault = <<idx, ops + 1>>

\* A loop that steps over the type after the one just printed.
AfterNodeSkip(i) == i + 2

\* The loop of Print after node returned from its last statement.
AfterNode(i) == i + 1

\* A loop that stops at the first error of the table.
AbortOnError(i, n) == n + 1

\* The loop of Print after node returned on an error of the table.
AfterError(i, n) == i + 1

\* An error path that flushes what the buffer holds so far.
WritePartial(writes, chunks) == Append(writes, chunks \o <<NL>>)

\* What the writer holds after node returned on an error: node wrote nothing.
SinkOnError(writes, chunks) == writes

\* io.WriteString(p, ...): one write of the indented buffer.
WriteString(writes, chunks) == Append(writes, Indent(chunks))

\* Print(g) is called with the next writer.
PrintCall(limit) ==
    /\ pc \in {"idle", "done"}
    /\ call < limit
    /\ call' = call + 1
    /\ idx' = 1
    /\ pc' = "loop"
    /\ UNCHANGED <<g, fault, sink, b, table, alignment, hasEdges, fi, ei, ops>>

\* The range loop of Print is over.
PrintReturn ==
    /\ pc = "loop"
    /\ idx > Len(g)
    /\ pc' = "done"
    /\ UNCHANGED <<g, fault, call, sink, idx, b, table, alignment, hasEdges, fi, ei, ops>>

\* node, up to the loop over the fields: the buffer with the name line, the
\* fields table with its header, the empty alignment list.
NodeBegin ==
    /\ pc = "loop"
    /\ idx <= Len(g)
    /\ b' = NewBuilder(b) \o NameLine(g[idx])
    /\ table' = Header(NewWriter, FieldsHeader)
    /\ alignment' = << >>
    /\ fi' = 1
    /\ ops' = 0
    /\ pc' = "fields"
    /\ UNCHANGED <<g, fault, call, sink, idx, hasEdges, ei>>

\* One iteration of the loop over append(id, t.Fields...).
FieldsAppend ==
    /\ pc = "fields"
    /\ fi <= Len(RowSource(g[idx]))
    /\ LET row == FieldRow(RowSource(g[idx])[fi])
           al == AppendAlignment(alignment, RowAlignment(row))
       IN  /\ alignment' = al
           /\ ops' = ops + 1
           /\ IF Fails
              THEN /\ sink' = [sink EXCEPT ![call] = SinkOnError(@, b)]
                   /\ idx' = AfterError(idx, Len(g))
                   /\ pc' = "loop"
                   /\ UNCHANGED <<table, fi>>
              ELSE /\ table' = WithRowAlignmentConfig(AppendRow(table, row), al)
                   /\ fi' = fi + 1
                   /\ UNCHANGED <<sink, idx, pc>>
    /\ UNCHANGED <<g, fault, call, b, hasEdges, ei>>

\* The fields table is rendered into the buffer and the edges table is made.
FieldsRender ==
    /\ pc = "fields"
    /\ fi > Len(RowSource(g[idx]))
    /\ ops' = ops + 1
    /\ IF Fails
       THEN /\ sink' = [sink EXCEPT ![call] = SinkOnError(@, b)]
            /\ idx' = AfterError(idx, Len(g))
            /\ pc' = "loop"
            /\ UNCHANGED <<b, table, hasEdges, ei>>
       ELSE /\ b' = b \o Render(table)
            /\ table' = Header(NewWriter, EdgesHeader)
            /\ hasEdges' = FALSE
            /\ ei' = 1
            /\ pc' = "edges"
            /\ UNCHANGED <<sink, idx>>
    /\ UNCHANGED <<g, fault, call, alignment, fi>>

\* One iteration of the loop over t.Edges.
EdgesAppend ==
    /\ pc = "edges"
    /\ ei <= Len(g[idx].Edges)
    /\ hasEdges' = TRUE
    /\ ops' = ops + 1
    /\ IF Fails
       THEN /\ sink' = [sink EXCEPT ![call] = SinkOnError(@, b)]
            /\ idx' = AfterError(idx, Len(g))
            /\ pc' = "loop"
            /\ UNCHANGED <<table, ei>>
       ELSE /\ table' = AppendRow(table, EdgeRow(g[idx].Edges[ei]))
            /\ ei' = ei + 1
            /\ UNCHANGED <<sink, idx, pc>>
    /\ UNCHANGED <<g, fault, call, b, alignment, fi>>

\* The edges table is rendered when the type has edges, and the block is
\* written to the writer.
NodeEnd ==
    /\ pc = "edges"
    /\ ei > Len(g[idx].Edges)
    /\ pc' = "loop"
    /\ IF RendersEdges(hasEdges)
       THEN /\ ops' = ops + 1
            /\ IF Fails
               THEN /\ sink' = [sink EXCEPT ![call] = SinkOnError(@, b)]
                    /\ idx' = AfterError(idx, Len(g))
                    /\ b' = b
               ELSE /\ b' = b \o Render(table)
                    /\ sink' = [sink EXCEPT ![call] = WriteString(@, b')]
                    /\ idx' = AfterNode(idx)
       ELSE /\ ops' = ops
            /\ b' = b
            /\ sink' = [sink EXCEPT ![call] = WriteString(@, b)]
            /\ idx' = AfterNode(idx)
    /\ UNCHANGED <<g, fault, call, table, alignment, hasEdges, fi, ei>>

NodeStep == NodeBegin \/ FieldsAppend \/ FieldsRender \/ EdgesAppend \/ NodeEnd

\* One call of Print.
Next == PrintCall(1) \/ PrintReturn \/ NodeStep

Spec == Init /\ [][Next]_vars

\* Print called twice with the same graph, each call on its own writer.
NextTwice == PrintCall(2) \/ PrintReturn \/ NodeStep

SpecTwice == Init /\ [][NextTwice]_vars


(***************************************************************************)
(* Vocabulary of the properties.                                           *)
(***************************************************************************)
\* The writes a writer received that begin with the name line of type t.
BlocksOf(writes, t) ==
    {j \in 1..Len(writes) :
        /\ Len(writes[j]) >= 2
        /\ writes[j][1] = t.Name \o ":"
        /\ writes[j][2] = NL}

\* The number of lines of text (chunks that are neither newline nor tab).
TextLines(chunks) == Cardinality({j \in 1..Len(chunks) : chunks[j] \notin {NL, TAB}})

\* The body rows of the fields table of type t.
BodyRows(t) == Len(t.Fields) + (IF t.ID = NoID THEN 0 ELSE 1)

\* The lines of a table with r body rows: border, header, border, and with
\* rows the rows and a closing border.
LinesOfTable(r) == IF r = 0 THEN 3 ELSE r + 4

\* The header-only edges table, as it would be printed for no edge.
EmptyEdgesHeaderText ==
    "| Edge | Type | Inverse | BackRef | Relation | Unique | Optional | Comment |"
EmptyEdgesBorderText ==
    "+------+------+---------+---------+----------+--------+----------+---------+"

\* The edge rows the printed description shows for the edges of the model.
ExpectedEdgeRow(e) ==
    IF e.Name = "posts"
    THEN <<"posts", "Post", "false", "", "O2M", "false", "true", "">>
    ELSE <<"owner", "User", "true", "pets", "M2O", "true", "false", "the owner">>

\* The alignment decision of one cell.
Decision(cell) == IF AtoiOk(cell) THEN AlignRight ELSE AlignLeft

\* The reflected columns of the fields table (all but Comment).
Reflected == Len(FieldsHeader) - 1

(***************************************************************************)
(* C1.  Print(g) processes every type of g.Nodes exactly once, in the      *)
(* stored order: when no table call fails, the writer holds one block per  *)
(* type written so far, block i begins with the name of g.Nodes[i]         *)
(* followed by ":\n", and when Print has returned there are as many        *)
(* blocks as types.                                                        *)
(***************************************************************************)
C1_BlocksFollowNodes ==
    fault = NoFault /\ call = 1 =>
        /\ Len(sink[1]) <= Len(g)
        /\ \A i \in 1..Len(sink[1]) :
              /\ sink[1][i][1] = g[i].Name \o ":"
              /\ sink[1][i][2] = NL
        /\ pc \in {"fields", "edges"} => Len(sink[1]) = idx - 1
        /\ pc = "done" => Len(sink[1]) = Len(g)

C1_Witness ==
    /\ pc = "done" /\ fault = NoFault
    /\ Len(g) >= 2 /\ Len(sink[1]) = Len(g)
    /\ sink[1][2][1] = "Post:"

(***************************************************************************)
(* C2.  When all rows of the fields table are appended, a type with an     *)
(* identifier field and N declared fields has N+1 body rows, the           *)
(* identifier's row first and the declared fields after it in declared     *)
(* order; a type without identifier field has N rows in declared order.    *)
(* The rendered table has one line per body row.                           *)
(***************************************************************************)
C2_FieldRows ==
    LET t == g[idx]
        n == Len(t.Fields)
    IN  /\ (pc = "fields" /\ fi > BodyRows(t)) =>
              /\ Len(table.rows) = (IF t.ID = NoID THEN n ELSE n + 1)
              /\ t.ID # NoID =>
                    /\ table.rows[1][1] = t.ID[1].Name
                    /\ \A k \in 1..n :
                          /\ table.rows[k + 1][1] = t.Fields[k].Name
                          /\ table.rows[k + 1][Len(FieldsHeader)] = t.Fields[k].comment
              /\ t.ID = NoID =>
                    \A k \in 1..n :
                       /\ table.rows[k][1] = t.Fields[k].Name
                       /\ table.rows[k][Len(FieldsHeader)] = t.Fields[k].comment
        /\ (pc = "edges") =>
              TextLines(b) = 1 + LinesOfTable(IF t.ID = NoID THEN n ELSE n + 1)

C2_Witness ==
    /\ pc = "edges"
    /\ g[idx].ID # NoID
    /\ Len(g[idx].Fields) = 2
    /\ TextLines(b) = 8

(***************************************************************************)
(* C3.  The block of a type with zero edges holds no edges table: it has   *)
(* the name line and the lines of the fields table only (three lines when  *)
(* the type has no field either), and neither the header nor a border of   *)
(* an edges table is among its lines.                                      *)
(***************************************************************************)
C3_NoEdgesTable ==
    \A c \in 1..2 : \A i \in 1..Len(g) :
        g[i].Edges = << >> =>
            \A j \in BlocksOf(sink[c], g[i]) :
                /\ TextLines(sink[c][j]) = 1 + LinesOfTable(BodyRows(g[i]))
                /\ \A k \in 1..Len(sink[c][j]) :
                      sink[c][j][k] \notin {EmptyEdgesHeaderText, EmptyEdgesBorderText}

C3_Witness ==
    /\ pc = "done"
    /\ \E i \in 1..Len(g) :
          /\ g[i].Edges = << >>
          /\ BodyRows(g[i]) = 0
          /\ \E j \in BlocksOf(sink[1], g[i]) : TextLines(sink[1][j]) = 4

(***************************************************************************)
(* C4.  For a type with at least one edge the edges table has the header   *)
(* Edge, Type, Inverse, BackRef, Relation, Unique, Optional, Comment and,  *)
(* when all edges are appended, one body row per edge of t.Edges in        *)
(* declaration order holding the name, the target type's name, IsInverse,  *)
(* the inverse name, the relation string, Unique, Optional and the         *)
(* comment; the block holds the lines of that table after those of the     *)
(* fields table.                                                           *)
(***************************************************************************)
C4_EdgesTable ==
    /\ (pc = "edges" /\ ei > Len(g[idx].Edges) /\ g[idx].Edges # << >>) =>
          /\ table.header = <<"Edge", "Type", "Inverse", "BackRef", "Relation",
                              "Unique", "Optional", "Comment">>
          /\ Len(table.rows) = Len(g[idx].Edges)
          /\ \A k \in 1..Len(g[idx].Edges) :
                table.rows[k] = ExpectedEdgeRow(g[idx].Edges[k])
          /\ TextLines(b) = 1 + LinesOfTable(BodyRows(g[idx]))
    /\ \A c \in 1..2 : \A i \in 1..Len(g) :
          g[i].Edges # << >> =>
              \A j \in BlocksOf(sink[c], g[i]) :
                  TextLines(sink[c][j]) =
                      1 + LinesOfTable(BodyRows(g[i])) + LinesOfTable(Len(g[i].Edges))

C4_Witness ==
    /\ pc = "done"
    /\ \E i \in 1..Len(g) :
          /\ Len(g[i].Edges) = 2
          /\ BodyRows(g[i]) = 3
          /\ \E j \in BlocksOf(sink[1], g[i]) : TextLines(sink[1][j]) = 14

(***************************************************************************)
(* C5.  In every block written to a writer, every line other than the      *)
(* first begins with a tab: each newline that is not the last character    *)
(* of the block is followed by a tab, and the block ends with a newline.   *)
(***************************************************************************)
C5_LinesBeginWithTab ==
    \A c \in 1..2 : \A j \in 1..Len(sink[c]) :
        LET w == sink[c][j]
        IN  /\ w[Len(w)] = NL
            /\ w[1] \notin {NL, TAB}
            /\ \A k \in 1..(Len(w) - 1) : w[k] = NL => w[k + 1] = TAB

C5_Witness ==
    /\ pc = "done"
    /\ \E j \in 1..Len(sink[1]) : TextLines(sink[1][j]) >= 10

(***************************************************************************)
(* C6 as stated.  After the last line of the last rendered table a block   *)
(* holds exactly one newline and nothing else.                             *)
(***************************************************************************)
C6_Original ==
    \A c \in 1..2 : \A j \in 1..Len(sink[c]) :
        LET w == sink[c][j]
        IN  /\ w[Len(w)] = NL
            /\ w[Len(w) - 1] \notin {NL, TAB}

(***************************************************************************)
(* C6 as amended.  After the last line of the last rendered table a block  *)
(* holds a newline, one tab and a final newline, and nothing else: every   *)
(* block ends with a line that holds only a tab.                           *)
(***************************************************************************)
C6_TrailingTabLine ==
    \A c \in 1..2 : \A j \in 1..Len(sink[c]) :
        LET w == sink[c][j]
            n == Len(w)
        IN  /\ n >= 4
            /\ w[n] = NL
            /\ w[n - 1] = TAB
            /\ w[n - 2] = NL
            /\ w[n - 3] \notin {NL, TAB}

C6_Witness ==
    /\ pc = "done"
    /\ \E j \in 1..Len(sink[1]) :
          /\ TextLines(sink[1][j]) = 4
          /\ Len(sink[1][j]) = 13

(***************************************************************************)
(* C7.  Print called twice with the same graph on two writers leaves the   *)
(* same content in both: nothing of the first call (buffer, alignment      *)
(* list, table) reaches the second.                                        *)
(***************************************************************************)
C7_SameOutputTwice ==
    (pc = "done" /\ call = 2) => Flatten(sink[1]) = Flatten(sink[2])

C7_Witness ==
    /\ pc = "done" /\ call = 2
    /\ Len(g) = 2
    /\ Len(sink[2]) = 2

(***************************************************************************)
(* C8.  A failing Append or Render while one type is rendered does not     *)
(* stop Print: the types before and after the failing one are processed    *)
(* in order and their blocks are written, and Print returns normally.      *)
(***************************************************************************)
C8_FailureDoesNotAbort ==
    (pc = "done" /\ call = 1 /\ fault # NoFault) =>
        /\ Len(sink[1]) = Len(g) - 1
        /\ \A i \in 1..Len(g) :
              /\ i < fault[1] => sink[1][i][1] = g[i].Name \o ":"
              /\ i > fault[1] => sink[1][i - 1][1] = g[i].Name \o ":"

C8_Witness ==
    /\ pc = "done" /\ fault # NoFault
    /\ fault[1] = 1 /\ Len(g) >= 2
    /\ Len(sink[1]) = Len(g) - 1
    /\ sink[1][1][1] = "Post:"

(***************************************************************************)
(* C9 as stated.  After all rows of a type are appended, the entry of the  *)
(* alignment list handed to the table at column position c, for the ten    *)
(* reflected columns, is the decision computed from the last row.          *)
(***************************************************************************)
C9_Original ==
    (pc = "fields" /\ fi > BodyRows(g[idx]) /\ table.rows # << >>) =>
        \A c \in 1..Reflected :
            table.perColumn[c] = Decision(table.rows[Len(table.rows)][c])

(***************************************************************************)
(* C9 as amended.  The alignment list handed to the table after each       *)
(* appended row grows by ten entries per row: the entry at column          *)
(* position c, for the ten reflected columns, is the decision computed     *)
(* from the first row, and the decisions of row k are at positions         *)
(* 10(k-1)+c.                                                              *)
(***************************************************************************)
C9_FirstRowDecides ==
    (pc = "fields" /\ table.rows # << >>) =>
        /\ Len(table.perColumn) = Reflected * Len(table.rows)
        /\ \A c \in 1..Reflected :
              table.perColumn[c] = Decision(table.rows[1][c])
        /\ \A k \in 1..Len(table.rows) : \A c \in 1..Reflected :
              table.perColumn[Reflected * (k - 1) + c] = Decision(table.rows[k][c])

C9_Witness ==
    /\ pc = "fields" /\ fi > BodyRows(g[idx])
    /\ Len(table.rows) = 2
    /\ \E c \in 1..Reflected :
          /\ Decision(table.rows[1][c]) = AlignRight
          /\ Decision(table.rows[2][c]) = AlignLeft
          /\ table.perColumn[c] = AlignRight

(***************************************************************************)
(* C10.  The write is all or nothing per type: a Print call writes at      *)
(* most one block per type, a written block is complete (name line, the    *)
(* whole fields table and the whole edges table when the type has edges),  *)
(* nothing is written for a type while it is being rendered, and nothing   *)
(* at all for the type whose Append or Render fails.                       *)
(***************************************************************************)
C10_AllOrNothing ==
    \A c \in 1..2 :
        /\ \A i \in 1..Len(g) :
              /\ Cardinality(BlocksOf(sink[c], g[i])) <= 1
              /\ fault[1] = i => BlocksOf(sink[c], g[i]) = {}
              /\ (c = call /\ i = idx /\ pc \in {"fields", "edges"}) =>
                    BlocksOf(sink[c], g[i]) = {}
        /\ \A j \in 1..Len(sink[c]) :
              \E i \in 1..Len(g) :
                  /\ j \in BlocksOf(sink[c], g[i])
                  /\ sink[c][j][Len(sink[c][j])] = NL
                  /\ TextLines(sink[c][j]) =
                        1 + LinesOfTable(BodyRows(g[i]))
                          + (IF g[i].Edges = << >> THEN 0
                             ELSE LinesOfTable(Len(g[i].Edges)))

C10_Witness ==
    /\ pc = "done" /\ fault # NoFault
    /\ g[fault[1]].Edges # << >>
    /\ fault[2] = TableCalls(g[fault[1]])
    /\ BlocksOf(sink[1], g[fault[1]]) = {}
    /\ Len(sink[1]) = Len(g) - 1

=============================================================================
